---- MODULE Spec2Model ----
(***************************************************************************)
(* Model of optuna's PercentilePruner (optuna/pruners/percentile.py) and   *)
(* of the trial records it reads (optuna/structs.py).                      *)
(*                                                                         *)
(* Floats are fixed-point numbers counted in hundredths (Float(10) is the  *)
(* float 10.0, 1250 is 12.5), so that the linear interpolation of          *)
(* numpy.nanpercentile is exact for whole-number percentiles.  NaN is a    *)
(* distinguished value outside the number range; every operation on floats *)
(* tests for it explicitly, the way IEEE arithmetic and numpy's nan-       *)
(* functions treat it.                                                     *)
(***************************************************************************)
EXTENDS Integers, Sequences, FiniteSets, TLC

\* ------------------------------------------------------------------ bounds

\* Largest step the running trial reports in the interval-gate specification.
MaxStep == 5
\* Number of other trials in the study snapshot.
MaxTrials == 2

\* ------------------------------------------------------------------ values

NaN == -1
None == -2

Float(n) == n * 100

isnan(x) == x = NaN

\* structs.StudyDirection
StudyDirection == {"NOT_SET", "MINIMIZE", "MAXIMIZE"}

\* structs.TrialState
TrialState == {"RUNNING", "COMPLETE", "PRUNED", "FAIL"}

\* The keys of a dict.
keys(d) == DOMAIN d

\* The values of a dict, as the set of the floats it holds.
values(d) == {d[k] : k \in DOMAIN d}

\* The empty dict.
EmptyDict == [k \in {} |-> NaN]

\* d[k] = v of a Python dict: the key is added or its value overwritten.
setitem(d, k, v) == [x \in (DOMAIN d) \cup {k} |-> IF x = k THEN v ELSE d[x]]

\* ------------------------------------------------------------- structs.py

\* FrozenTrial.last_step
last_step(t) ==
    IF Cardinality(keys(t.intermediate_values)) = 0
    THEN None
    ELSE CHOOSE m \in keys(t.intermediate_values) :
             \A k \in keys(t.intermediate_values) : k <= m

\* ---------------------------------------------------------- percentile.py

\* numpy.nanmax of a non-empty array: the largest non-NaN element, NaN when
\* every element is NaN.
nanmax(vs) ==
    LET nums == {v \in vs : ~isnan(v)}
    IN IF nums = {} THEN NaN
       ELSE CHOOSE m \in nums : \A v \in nums : v <= m

\* numpy.nanmin of a non-empty array.
nanmin(vs) ==
    LET nums == {v \in vs : ~isnan(v)}
    IN IF nums = {} THEN NaN
       ELSE CHOOSE m \in nums : \A v \in nums : m <= v

\* The best value with the dispatch turned round: nanmin for MINIMIZE, nanmax
\* for every other direction.
best_max_unless_minimize(trial_, direction_) ==
    IF direction_ = "MINIMIZE"
    THEN nanmin(values(trial_.intermediate_values))
    ELSE nanmax(values(trial_.intermediate_values))

\* The best value with NaN replaced by zero (numpy.nan_to_num) when every
\* report is NaN.
best_nan_to_num(trial_, direction_) ==
    LET best == IF direction_ = "MAXIMIZE"
                THEN nanmax(values(trial_.intermediate_values))
                ELSE nanmin(values(trial_.intermediate_values))
    IN IF isnan(best) THEN Float(0) ELSE best

_get_best_intermediate_result_over_steps(trial_, direction_) ==
    IF direction_ = "MAXIMIZE"
    THEN nanmax(values(trial_.intermediate_values))
    ELSE nanmin(values(trial_.intermediate_values))

\* The k-th smallest element (k counted from 0) of a non-empty sequence of
\* numbers: the order statistic numpy's percentile interpolates between.
kth(nums, k) ==
    CHOOSE v \in {nums[i] : i \in DOMAIN nums} :
        /\ Cardinality({i \in DOMAIN nums : nums[i] < v}) <= k
        /\ k < Cardinality({i \in DOMAIN nums : nums[i] <= v})

\* numpy.nanpercentile with interpolation='lower': the order statistic below
\* the virtual index, no interpolation.
nanpercentile_lower(arr, q) ==
    LET nums == SelectSeq(arr, LAMBDA v : ~isnan(v))
        n    == Len(nums)
    IN IF n = 0 THEN NaN ELSE kth(nums, (q * (n - 1)) \div 100)

\* numpy.nanpercentile(arr, q) with the default linear interpolation: NaNs are
\* dropped, an empty or all-NaN array gives NaN (with a RuntimeWarning, no
\* error), otherwise the value at the virtual index q/100 * (n-1) of the
\* sorted array, interpolated linearly between its two neighbours.
nanpercentile(arr, q) ==
    LET nums == SelectSeq(arr, LAMBDA v : ~isnan(v))
        n    == Len(nums)
        pos  == q * (n - 1)
        lo   == pos \div 100
        rem  == pos % 100
    IN IF n = 0 THEN NaN
       ELSE IF rem = 0 THEN kth(nums, lo)
       ELSE kth(nums, lo) + ((kth(nums, lo + 1) - kth(nums, lo)) * rem) \div 100

\* The list with a trial that has no value at the step counted as zero
\* (t.intermediate_values.get(step, 0.0)).
RECURSIVE values_at_step_default(_, _)
values_at_step_default(completed_trials, step) ==
    IF completed_trials = <<>> THEN <<>>
    ELSE LET t == Head(completed_trials)
             rest == values_at_step_default(Tail(completed_trials), step)
         IN IF step \in keys(t.intermediate_values)
            THEN <<t.intermediate_values[step]>> \o rest
            ELSE <<Float(0)>> \o rest

\* [t.intermediate_values[step] for t in completed_trials
\*  if step in t.intermediate_values]
RECURSIVE values_at_step(_, _)
values_at_step(completed_trials, step) ==
    IF completed_trials = <<>> THEN <<>>
    ELSE LET t == Head(completed_trials)
             rest == values_at_step(Tail(completed_trials), step)
         IN IF step \in keys(t.intermediate_values)
            THEN <<t.intermediate_values[step]>> \o rest
            ELSE rest

\* The percentile index without the turn for MAXIMIZE.
percentile_index_unturned(direction_, percentile) == percentile

\* The percentile index handed to numpy.nanpercentile.
percentile_index(direction_, percentile) ==
    IF direction_ = "MAXIMIZE" THEN 100 - percentile ELSE percentile

\* What a call gave: the exception it raised ("None" when it returned) and the
\* value it returned.
Raise(exception) == [raised |-> exception, value |-> None]
Return(value) == [raised |-> "None", value |-> value]

_get_percentile_intermediate_result_over_trials(all_trials, direction_, step, percentile) ==
    LET completed_trials == SelectSeq(all_trials, LAMBDA t : t.state = "COMPLETE")
    IN IF Len(completed_trials) = 0 THEN Raise("ValueError")
       ELSE Return(nanpercentile(values_at_step(completed_trials, step),
                                 percentile_index(direction_, percentile)))

\* The boundary rounded up to the next window instead of down.
nearest_upper_pruning_step(step, n_warmup_steps, interval_steps) ==
    ((step - n_warmup_steps - 1) \div interval_steps + 1) * interval_steps + n_warmup_steps + 1

\* The boundary without the offset of one step past the warmup.
nearest_lower_pruning_step_no_offset(step, n_warmup_steps, interval_steps) ==
    ((step - n_warmup_steps) \div interval_steps) * interval_steps + n_warmup_steps

nearest_lower_pruning_step(step, n_warmup_steps, interval_steps) ==
    ((step - n_warmup_steps - 1) \div interval_steps) * interval_steps
        + n_warmup_steps + 1

\* six.moves.reduce(lambda second_last_step, s: s if s > second_last_step and
\* s != step else second_last_step, intermediate_steps, -1), the steps taken in
\* any order.
RECURSIVE reduce_second_last_step(_, _, _)
reduce_second_last_step(intermediate_steps, step, second_last_step) ==
    IF intermediate_steps = {} THEN second_last_step
    ELSE LET s == CHOOSE x \in intermediate_steps : TRUE
         IN reduce_second_last_step(
                intermediate_steps \ {s}, step,
                IF s > second_last_step /\ s # step THEN s ELSE second_last_step)

\* The interval check with a step on the boundary itself let through.
is_first_nonstrict(step, intermediate_steps, n_warmup_steps, interval_steps) ==
    LET nearest == nearest_lower_pruning_step(step, n_warmup_steps, interval_steps)
        second_last_step == reduce_second_last_step(intermediate_steps, step, -1)
    IN IF ~(nearest >= 0) THEN [raised |-> "AssertionError", value |-> FALSE]
       ELSE Return(second_last_step <= nearest)

_is_first_in_interval_step(step, intermediate_steps, n_warmup_steps, interval_steps) ==
    LET nearest == nearest_lower_pruning_step(step, n_warmup_steps, interval_steps)
        second_last_step == reduce_second_last_step(intermediate_steps, step, -1)
    IN IF ~(nearest >= 0) THEN [raised |-> "AssertionError", value |-> FALSE]
       ELSE Return(second_last_step < nearest)

\* What one call of prune did: the exception it raised ("None" when it
\* returned), the value it returned, the statement it left by, and the step,
\* best value and percentile it had computed by then (None for what it had not
\* computed).
Outcome(raised_, ret_, at_, step_, best_, p_) ==
    [raised |-> raised_, ret |-> ret_, at |-> at_, step |-> step_,
     best |-> best_, p |-> p_]

\* The trials counted whatever their state.
count_all(all_trials) == Len(all_trials)

\* len([t for t in all_trials if t.state == structs.TrialState.COMPLETE])
count_complete(all_trials) ==
    Len(SelectSeq(all_trials, LAMBDA t : t.state = "COMPLETE"))

\* The startup returns without the one for no COMPLETE trial.
in_startup_no_zero_check(n_trials, n_startup_trials) == n_trials < n_startup_trials

\* The two startup returns: no COMPLETE trial, or fewer than n_startup_trials.
in_startup(n_trials, n_startup_trials) ==
    n_trials = 0 \/ n_trials < n_startup_trials

\* The warmup return with the step n_warmup_steps itself let through.
in_warmup_strict(step, n_warmup_steps) == step < n_warmup_steps

\* The warmup return.
in_warmup(step, n_warmup_steps) == step <= n_warmup_steps

\* The value comparison with a tie pruned.
final_decision_nonstrict(direction_, best_intermediate_result, p) ==
    IF direction_ = "MAXIMIZE"
    THEN best_intermediate_result <= p
    ELSE best_intermediate_result >= p

\* The value comparison that ends prune.
final_decision(direction_, best_intermediate_result, p) ==
    IF direction_ = "MAXIMIZE"
    THEN best_intermediate_result < p
    ELSE best_intermediate_result > p

\* PercentilePruner.prune(study, trial)
prune(self, study_, trial_) ==
    LET all_trials == study_.trials
        n_trials == count_complete(all_trials)
        step == last_step(trial_)
        n_warmup_steps == self.n_warmup_steps
        first == _is_first_in_interval_step(
                     step, keys(trial_.intermediate_values), n_warmup_steps,
                     self.interval_steps)
        direction_ == study_.direction
        best_intermediate_result ==
            _get_best_intermediate_result_over_steps(trial_, direction_)
        p == _get_percentile_intermediate_result_over_trials(
                 all_trials, direction_, step, self.percentile)
    IN IF in_startup(n_trials, self.n_startup_trials)
       THEN Outcome("None", FALSE, "startup", None, None, None)
       ELSE IF step = None
       THEN Outcome("None", FALSE, "no_step", None, None, None)
       ELSE IF in_warmup(step, n_warmup_steps)
       THEN Outcome("None", FALSE, "warmup", step, None, None)
       ELSE IF first.raised # "None"
       THEN Outcome(first.raised, FALSE, "interval", step, None, None)
       ELSE IF ~first.value
       THEN Outcome("None", FALSE, "interval", step, None, None)
       ELSE IF isnan(best_intermediate_result)
       THEN Outcome("None", TRUE, "nan_best", step, best_intermediate_result, None)
       ELSE IF p.raised # "None"
       THEN Outcome(p.raised, FALSE, "percentile", step, best_intermediate_result, None)
       ELSE IF isnan(p.value)
       THEN Outcome("None", FALSE, "nan_percentile", step,
                    best_intermediate_result, p.value)
       ELSE Outcome("None", final_decision(direction_, best_intermediate_result, p.value),
                    "compare", step, best_intermediate_result, p.value)

\* ------------------------------------------------------------ the system

VARIABLES
    pruner,      \* the PercentilePruner: its four configuration fields
    study,       \* the study: its direction and the records of its other trials
    trial,       \* the running trial's record
    pc,          \* "idle": nothing reported yet; "reported": a report or a new
                 \* trial since the last prune call; "called": prune has just
                 \* returned, ret is its outcome for the present state
    ret,         \* the outcome of the prune call that has just returned
                 \* (NoCall once the trial has moved on)
    evaluated,   \* per latest step watched, how many prune calls passed the
                 \* interval check with it (2 stands for "more than once")
    increasing   \* every report so far was at a step above all earlier ones

vars == <<pruner, study, trial, pc, ret, evaluated, increasing>>

\* The study as the pruner reads it: study.trials holds every trial of the
\* study, the running one among them.
snapshot == [direction |-> study.direction, trials |-> Append(study.trials, trial)]

\* A trial record: the two fields of FrozenTrial the pruner reads.
FrozenTrial(state, intermediate_values) ==
    [state |-> state, intermediate_values |-> intermediate_values]

\* The prune calls that got past the interval check left by one of these.
PastInterval == {"nan_best", "percentile", "nan_percentile", "compare"}

NoCall == Outcome("None", FALSE, "none", None, None, None)

\* trial.report(step, value): last write wins, any step order.
Report(step, value) ==
    /\ pc \in {"idle", "called"}
    /\ trial' = [trial EXCEPT !.intermediate_values = setitem(@, step, value)]
    /\ increasing' = (increasing /\ (last_step(trial) = None \/ step > last_step(trial)))
    /\ pc' = "reported"
    /\ ret' = NoCall
    /\ UNCHANGED <<pruner, study, evaluated>>

\* Another trial of the study ends (or is seen running) with the given record.
AddTrial(t) ==
    /\ pc \in {"idle", "reported"}
    /\ Len(study.trials) < MaxTrials
    /\ study' = [study EXCEPT !.trials = Append(@, t)]
    /\ ret' = NoCall
    /\ UNCHANGED <<pruner, trial, pc, evaluated, increasing>>

\* prune dropping the NaN reports of the trial in place before it decides.
Prune_in_place ==
    /\ pc \in {"idle", "reported"}
    /\ ret' = prune(pruner, snapshot, trial)
    /\ trial' = [trial EXCEPT !.intermediate_values =
                     [s \in {k \in DOMAIN @ : ~isnan(@[k])} |-> @[s]]]
    /\ evaluated' =
           IF ret'.at \in PastInterval /\ ret'.step \in DOMAIN evaluated
           THEN [evaluated EXCEPT ![ret'.step] = IF @ = 0 THEN 1 ELSE 2]
           ELSE evaluated
    /\ pc' = "called"
    /\ UNCHANGED <<pruner, study, increasing>>

\* trial.should_prune(): pruner.prune(study, trial) on the present snapshot.
Prune ==
    /\ pc \in {"idle", "reported"}
    /\ ret' = prune(pruner, snapshot, trial)
    /\ evaluated' =
           IF ret'.at \in PastInterval /\ ret'.step \in DOMAIN evaluated
           THEN [evaluated EXCEPT ![ret'.step] = IF @ = 0 THEN 1 ELSE 2]
           ELSE evaluated
    /\ pc' = "called"
    /\ UNCHANGED <<pruner, study, trial, increasing>>

\* --------------------------------------------- the comparison specification

\* Few steps, many values: the value comparison and the percentile.
Steps == 1..2
Percentiles == {0, 25, 50, 100}
ReportedValues == {NaN, Float(5), Float(15)}
CompletedValues == {NaN, Float(10), Float(20)}

\* The dicts that hold one report, and the empty one.
OneReport(S, V) == {EmptyDict} \cup {setitem(EmptyDict, k, v) : k \in S, v \in V}

Init ==
    /\ pruner \in [percentile : Percentiles, n_startup_trials : {0, 2},
                   n_warmup_steps : {0, 1}, interval_steps : {1}]
    /\ study \in [direction : StudyDirection, trials : {<<>>}]
    /\ trial = FrozenTrial("RUNNING", EmptyDict)
    /\ pc = "idle"
    /\ ret = NoCall
    /\ evaluated = [s \in {} |-> 0]   \* no step is watched here
    /\ increasing = TRUE

Next ==
    \/ \E step \in Steps, value \in ReportedValues : Report(step, value)
    \/ \E iv \in OneReport(Steps, CompletedValues) : AddTrial(FrozenTrial("COMPLETE", iv))
    \/ AddTrial(FrozenTrial("PRUNED", setitem(EmptyDict, 1, Float(20))))
    \/ Prune

Spec == Init /\ [][Next]_vars

\* ------------------------------------------- the interval-gate specification

\* Many steps, few values: the startup, warmup and interval gates.
GateSteps == 0..MaxStep
GateValues == {NaN, Float(10)}

InitGates ==
    /\ pruner \in [percentile : {50}, n_startup_trials : {1},
                   n_warmup_steps : {0, 1, 3}, interval_steps : {1, 2, 3}]
    /\ study = [direction |-> "MINIMIZE",
                trials |-> <<FrozenTrial("COMPLETE", [s \in GateSteps |-> Float(5)])>>]
    /\ trial = FrozenTrial("RUNNING", EmptyDict)
    /\ pc = "idle"
    /\ ret = NoCall
    /\ evaluated = [s \in GateSteps |-> 0]
    /\ increasing = TRUE

NextGates ==
    \/ \E step \in GateSteps, value \in GateValues : Report(step, value)
    \/ Prune

SpecGates == InitGates /\ [][NextGates]_vars

\* ------------------------------------------------- what the claims speak of

\* prune has just returned: ret is its outcome for the present state.
Called == pc = "called"

\* The call returned a boolean and raised nothing.
Returned(b) == ret.raised = "None" /\ ret.ret = b

\* The running trial's reported steps and values.
ReportedSteps == DOMAIN trial.intermediate_values
ReportedNumbers == {v \in values(trial.intermediate_values) : v # NaN}

\* The latest reported step (of a trial that has reported).
Latest == CHOOSE m \in ReportedSteps : \A k \in ReportedSteps : k <= m

\* The COMPLETE trials of the snapshot, by position.
CompleteTrials == {i \in DOMAIN snapshot.trials : snapshot.trials[i].state = "COMPLETE"}

\* The positions of the COMPLETE trials that hold a number at step s.
NumbersAt(s) ==
    {i \in CompleteTrials :
        /\ s \in DOMAIN snapshot.trials[i].intermediate_values
        /\ snapshot.trials[i].intermediate_values[s] # NaN}

\* The interval window of step s: window k is
\* [n_warmup_steps + 1 + k * interval_steps, n_warmup_steps + (k+1) * interval_steps].
WindowOf(s) == (s - pruner.n_warmup_steps - 1) \div pruner.interval_steps

StartupPassed ==
    /\ Cardinality(CompleteTrials) >= 1
    /\ Cardinality(CompleteTrials) >= pruner.n_startup_trials

WarmupPassed == ReportedSteps # {} /\ Latest > pruner.n_warmup_steps

\* The latest step is the smallest step the trial has reported in its window.
FirstInWindow == \A s \in ReportedSteps : WindowOf(s) = WindowOf(Latest) => s = Latest

GatesPassed == StartupPassed /\ WarmupPassed /\ FirstInWindow

\* The steps at which some prune call passed the interval check.
EvaluatedSteps == {s \in DOMAIN evaluated : evaluated[s] >= 1}

\* ----------------------------------------------------------------- claims

\* C1: when prune passes the startup, warmup and interval gates and both the
\* running trial's best value and the percentile threshold are numbers, it
\* reaches the comparison and returns true iff best < threshold under MAXIMIZE
\* and iff best > threshold under MINIMIZE; a tie is never pruned.
C1_StrictComparison ==
    (Called /\ GatesPassed /\ ReportedNumbers # {} /\ NumbersAt(Latest) # {}) =>
        /\ ret.at = "compare"
        /\ ret.raised = "None"
        /\ study.direction = "MAXIMIZE" => (ret.ret <=> ret.best < ret.p)
        /\ study.direction = "MINIMIZE" => (ret.ret <=> ret.best > ret.p)
        /\ ret.best = ret.p => ~ret.ret

\* A tie at the comparison, in a study that maximizes or minimizes.
C1_Witness ==
    /\ Called /\ GatesPassed /\ ret.at = "compare"
    /\ study.direction = "MAXIMIZE"
    /\ ret.best = ret.p /\ ret.ret = FALSE
    /\ Cardinality(NumbersAt(Latest)) = 2

\* At most one prune call per interval window passed the interval check.
AtMostOncePerWindow ==
    /\ \A s \in DOMAIN evaluated : evaluated[s] <= 1
    /\ \A s, t \in EvaluatedSteps : WindowOf(s) = WindowOf(t) => s = t

\* C2 as stated: for any sequence of reports (re-reports and out-of-order
\* steps included) with prune called after each, at most one of the prune
\* calls whose latest step lies in a given interval window passes the interval
\* check.
C2_AnyReportOrder == AtMostOncePerWindow

\* C2 amended: when every report is at a step above all steps reported before,
\* at most one of the prune calls whose latest step lies in a given interval
\* window passes the interval check.
C2_IncreasingReports == increasing => AtMostOncePerWindow

\* Two increasing reports in one window, the first evaluated, the second not.
C2_Witness ==
    /\ Called /\ increasing /\ StartupPassed
    /\ \E s, t \in ReportedSteps :
           /\ s < t /\ t = Latest
           /\ s > pruner.n_warmup_steps
           /\ WindowOf(s) = WindowOf(t)
           /\ evaluated[s] = 1 /\ evaluated[t] = 0

\* C3: for strictly increasing reports with prune called after each, a prune
\* call passes the interval check iff the just-reported step is above
\* n_warmup_steps and is the smallest step reported in its window; with
\* interval_steps = 2, n_warmup_steps = 0 and reports at 1..5 the evaluated
\* steps are exactly 1, 3 and 5; and after a window without any report the next
\* reported step is evaluated.
C3_FirstStepOfWindow ==
    (Called /\ increasing /\ StartupPassed /\ ReportedSteps # {}) =>
        /\ (ret.at \in PastInterval) <=>
               (Latest > pruner.n_warmup_steps /\ FirstInWindow)
        /\ (pruner.n_warmup_steps = 0 /\ pruner.interval_steps = 2
                /\ ReportedSteps = 1..5) => EvaluatedSteps = {1, 3, 5}
        /\ (/\ Latest > pruner.n_warmup_steps
            /\ \A s \in ReportedSteps \ {Latest} : WindowOf(s) < WindowOf(Latest) - 1)
               => ret.at \in PastInterval

\* The reports 1..5 of the example, each followed by its prune call.
C3_Witness ==
    /\ Called /\ increasing /\ StartupPassed
    /\ pruner.n_warmup_steps = 0 /\ pruner.interval_steps = 2
    /\ ReportedSteps = 1..5
    /\ EvaluatedSteps = {1, 3, 5}

\* C4: prune returns false whenever the snapshot holds no COMPLETE trial (even
\* with n_startup_trials = 0) or fewer COMPLETE trials than n_startup_trials,
\* whatever the percentile, the direction and the running trial's reports.
C4_StartupGate ==
    (Called /\ (CompleteTrials = {}
                    \/ Cardinality(CompleteTrials) < pruner.n_startup_trials))
        => Returned(FALSE)

\* No COMPLETE trial beside a PRUNED one, n_startup_trials = 0, and a running
\* trial that reported only NaN past the warmup.
C4_Witness ==
    /\ Called /\ CompleteTrials = {} /\ Len(study.trials) >= 1
    /\ pruner.n_startup_trials = 0
    /\ WarmupPassed /\ ReportedNumbers = {}
    /\ Returned(FALSE)

\* C5: prune returns false whenever the running trial has no intermediate
\* value or its latest step is <= n_warmup_steps; with the latest step at
\* n_warmup_steps + 1 the call passes the warmup and the interval check,
\* whatever interval_steps is and whatever smaller steps were reported.
C5_WarmupGate ==
    Called =>
        /\ (ReportedSteps = {} \/ Latest <= pruner.n_warmup_steps) => Returned(FALSE)
        /\ (StartupPassed /\ ReportedSteps # {} /\ Latest = pruner.n_warmup_steps + 1)
               => (ret.at \in PastInterval /\ ret.raised = "None")

\* n_warmup_steps = 3, the steps 2, 3 and 4 reported: the call at step 4 is
\* past the interval check.
C5_Witness ==
    /\ Called /\ StartupPassed
    /\ pruner.n_warmup_steps = 3 /\ pruner.interval_steps = 3
    /\ {2, 3, 4} \subseteq ReportedSteps /\ Latest = 4
    /\ ret.at \in PastInterval

\* C6: past the startup, warmup and interval gates a running trial whose
\* reports are all NaN is pruned, whatever the direction and percentile, also
\* when no COMPLETE trial has a value at the trial's latest step.
C6_AllNaNPruned ==
    (Called /\ GatesPassed /\ ReportedNumbers = {}) => Returned(TRUE)

\* Two NaN reports, no COMPLETE trial with a value at the latest step.
C6_Witness ==
    /\ Called /\ GatesPassed /\ ReportedNumbers = {}
    /\ Cardinality(ReportedSteps) = 2
    /\ NumbersAt(Latest) = {}
    /\ Returned(TRUE)

\* C7: when the running trial's best value is a number and no COMPLETE trial
\* has a number at exactly the running trial's latest step, prune returns false
\* and raises nothing.
C7_FailOpen ==
    (Called /\ ReportedNumbers # {} /\ NumbersAt(Latest) = {}) => Returned(FALSE)

\* Past the gates in a study that minimizes, the running trial's best is its
\* largest value; the only value a COMPLETE trial holds at the latest step is
\* NaN, another COMPLETE trial holds none there.
C7_Witness ==
    /\ Called /\ GatesPassed /\ ReportedNumbers # {} /\ NumbersAt(Latest) = {}
    /\ study.direction = "MINIMIZE" /\ ret.best = Float(15)
    /\ ret.at = "nan_percentile"
    /\ \E i, j \in CompleteTrials :
           /\ Latest \in DOMAIN snapshot.trials[i].intermediate_values
           /\ Latest \notin DOMAIN snapshot.trials[j].intermediate_values
    /\ Returned(FALSE)

\* The smallest and the largest number the running trial reported.
SmallestReported == CHOOSE m \in ReportedNumbers : \A v \in ReportedNumbers : m <= v
LargestReported == CHOOSE m \in ReportedNumbers : \A v \in ReportedNumbers : v <= m

\* C8 as stated: the best value prune uses is the minimum of the reported
\* numbers when direction = MINIMIZE and their maximum for any other direction
\* (MAXIMIZE and NOT_SET).
C8_MaxUnlessMinimize ==
    (Called /\ GatesPassed /\ ReportedNumbers # {}) =>
        ret.best = IF study.direction = "MINIMIZE"
                   THEN SmallestReported ELSE LargestReported

\* C8 amended: the best value prune uses is the maximum of the reported
\* numbers when direction = MAXIMIZE and their minimum for any other direction
\* (MINIMIZE and NOT_SET).
C8_MinUnlessMaximize ==
    (Called /\ GatesPassed /\ ReportedNumbers # {}) =>
        ret.best = IF study.direction = "MAXIMIZE"
                   THEN LargestReported ELSE SmallestReported

\* A NOT_SET study, two different numbers reported: the best is the smaller.
C8_Witness ==
    /\ Called /\ GatesPassed
    /\ study.direction = "NOT_SET"
    /\ Cardinality(ReportedNumbers) = 2
    /\ ret.best = SmallestReported

\* The numbers the COMPLETE trials hold at step s, in the order of the trials.
CompletedNumbersAt(s) ==
    LET at == NumbersAt(s)
        nth(j) == CHOOSE i \in at : Cardinality({h \in at : h < i}) = j - 1
    IN [j \in 1..Cardinality(at) |-> snapshot.trials[nth(j)].intermediate_values[s]]

SmallestCompletedAt(s) ==
    CHOOSE m \in {snapshot.trials[i].intermediate_values[s] : i \in NumbersAt(s)} :
        \A i \in NumbersAt(s) : m <= snapshot.trials[i].intermediate_values[s]

LargestCompletedAt(s) ==
    CHOOSE m \in {snapshot.trials[i].intermediate_values[s] : i \in NumbersAt(s)} :
        \A i \in NumbersAt(s) : snapshot.trials[i].intermediate_values[s] <= m

\* C9: for configured percentile p the threshold prune compares against is the
\* (100-p)-th percentile of the values the COMPLETE trials reported at exactly
\* the running trial's latest step when direction = MAXIMIZE, and their p-th
\* percentile when direction = MINIMIZE (so p = 0 gives their maximum under
\* MAXIMIZE and their minimum under MINIMIZE, p = 100 the reverse); values at
\* other steps do not enter.
C9_PercentileSymmetry ==
    (Called /\ GatesPassed /\ ReportedNumbers # {} /\ NumbersAt(Latest) # {}) =>
        /\ study.direction = "MAXIMIZE" =>
               /\ ret.p = nanpercentile(CompletedNumbersAt(Latest), 100 - pruner.percentile)
               /\ pruner.percentile = 0 => ret.p = LargestCompletedAt(Latest)
               /\ pruner.percentile = 100 => ret.p = SmallestCompletedAt(Latest)
        /\ study.direction = "MINIMIZE" =>
               /\ ret.p = nanpercentile(CompletedNumbersAt(Latest), pruner.percentile)
               /\ pruner.percentile = 0 => ret.p = SmallestCompletedAt(Latest)
               /\ pruner.percentile = 100 => ret.p = LargestCompletedAt(Latest)

\* A study that maximizes, percentile 25, the values 10 and 20 at the latest
\* step: the threshold is their 75th percentile, 17.5.
C9_Witness ==
    /\ Called /\ GatesPassed
    /\ study.direction = "MAXIMIZE" /\ pruner.percentile = 25
    /\ Cardinality(NumbersAt(Latest)) = 2
    /\ SmallestCompletedAt(Latest) = Float(10) /\ LargestCompletedAt(Latest) = Float(20)
    /\ ret.at = "compare"
    /\ ret.p = Float(17) + 50

\* The end-to-end scenario: MINIMIZE, n_startup_trials = 2, n_warmup_steps = 0,
\* interval_steps = 1, percentile = 25, two COMPLETE trials with 10 and 20 at
\* step 1, the running trial's only report v at step 1, prune just called.
Scenario(v) ==
    /\ Called
    /\ study.direction = "MINIMIZE"
    /\ pruner = [percentile |-> 25, n_startup_trials |-> 2, n_warmup_steps |-> 0,
                 interval_steps |-> 1]
    /\ Len(study.trials) = 2
    /\ \A i \in 1..2 : study.trials[i].state = "COMPLETE"
    /\ {study.trials[i].intermediate_values : i \in 1..2}
           = {setitem(EmptyDict, 1, Float(10)), setitem(EmptyDict, 1, Float(20))}
    /\ trial.intermediate_values = setitem(EmptyDict, 1, v)

\* C10: in the scenario the threshold is 12.5; a running trial whose only
\* report is 15 at step 1 is pruned, one whose only report is 5 is not.
C10_EndToEnd ==
    /\ Scenario(Float(15)) => (ret.p = Float(12) + 50 /\ Returned(TRUE))
    /\ Scenario(Float(5)) => (ret.p = Float(12) + 50 /\ Returned(FALSE))

\* The scenario with the report 15: pruned against the threshold 12.5.
C10_Witness == Scenario(Float(15)) /\ ret.at = "compare" /\ Returned(TRUE)

\* ------------------------------------------- FrozenTrial and its validation

\* FrozenTrial.__init__ with the fields _validate reads and the ones a trial
\* gathers: plain attributes, each assignable at any time.
TrialRecord(state, value, datetime_start, datetime_complete, params, distributions, user_attrs, intermediate_values) ==
    [state |-> state, value |-> value, datetime_start |-> datetime_start,
     datetime_complete |-> datetime_complete, params |-> params,
     distributions |-> distributions, user_attrs |-> user_attrs,
     intermediate_values |-> intermediate_values]

\* A datetime (any one will do: _validate tests only for None).
Now == 1

\* UniformDistribution(low, high) and its _contains.
UniformDistribution(low, high) == [low |-> low, high |-> high]
contains(distribution, param_value) ==
    distribution.low <= param_value /\ param_value <= distribution.high

\* TrialState.is_finished, true of COMPLETE only.
is_finished_complete_only(state) == state = "COMPLETE"

\* TrialState.is_finished
is_finished(state) == state # "RUNNING"

\* The datetime_complete test without its branch for a running trial.
datetime_complete_error_finished_only(self) ==
    is_finished(self.state) /\ self.datetime_complete = None

\* _validate: datetime_complete unset on a finished trial, or set on a
\* running one.
datetime_complete_error(self) ==
    IF is_finished(self.state)
    THEN self.datetime_complete = None
    ELSE self.datetime_complete # None

\* The value test made an equivalence: value set exactly when COMPLETE.
value_error_iff(self) == (self.state = "COMPLETE") <=> (self.value = None)

\* _validate: a COMPLETE trial without value.
value_error(self) == self.state = "COMPLETE" /\ self.value = None

\* _validate: params and distributions name different parameters, or a value
\* lies outside its distribution.
params_error(self) ==
    \/ keys(self.params) # keys(self.distributions)
    \/ \E param_name \in keys(self.params) :
           ~contains(self.distributions[param_name], self.params[param_name])

\* FrozenTrial._validate: raises ValueError or returns None.
_validate(self) ==
    IF self.datetime_start = None THEN Raise("ValueError")
    ELSE IF datetime_complete_error(self) THEN Raise("ValueError")
    ELSE IF value_error(self) THEN Raise("ValueError")
    ELSE IF params_error(self) THEN Raise("ValueError")
    ELSE Return(None)

\* The record of test_frozen_trial_validate: COMPLETE and valid.
ValidTrial ==
    TrialRecord("COMPLETE", Float(2), Now, Now, [n \in {"x"} |-> 10],
                [n \in {"x"} |-> UniformDistribution(5, 12)], EmptyDict, EmptyDict)

\* What each attribute is assigned from.
AttributeValues ==
    [state |-> TrialState,
     value |-> {None, Float(2), Float(3)},
     datetime_start |-> {None, Now},
     datetime_complete |-> {None, Now},
     params |-> {EmptyDict, [n \in {"x"} |-> 10], [n \in {"x"} |-> 13]},
     distributions |-> {EmptyDict, [n \in {"x"} |-> UniformDistribution(5, 12)]},
     user_attrs |-> {EmptyDict, [n \in {"k"} |-> 1]},
     intermediate_values |-> {EmptyDict, setitem(EmptyDict, 1, Float(10))}]

\* trial.<name> = v: FrozenTrial has no guard on assignment.
SetAttr(name, v) ==
    /\ pc \in {"record", "validated"}
    /\ trial' = [trial EXCEPT ![name] = v]
    /\ pc' = "record"
    /\ ret' = NoCall
    /\ UNCHANGED <<pruner, study, evaluated, increasing>>

\* trial._validate()
Validate ==
    /\ pc = "record"
    /\ ret' = _validate(trial)
    /\ pc' = "validated"
    /\ UNCHANGED <<pruner, study, trial, evaluated, increasing>>

\* The record specification: one trial record, assigned to and validated.
InitRecord ==
    /\ trial = ValidTrial
    /\ pc = "record"
    /\ ret = NoCall
    /\ pruner = [percentile |-> 50, n_startup_trials |-> 0, n_warmup_steps |-> 0,
                 interval_steps |-> 1]
    /\ study = [direction |-> "MINIMIZE", trials |-> <<>>]
    /\ evaluated = [s \in {} |-> 0]
    /\ increasing = TRUE

NextRecord ==
    \/ \E name \in DOMAIN AttributeValues : \E v \in AttributeValues[name] : SetAttr(name, v)
    \/ Validate

SpecRecord == InitRecord /\ [][NextRecord]_vars

\* _validate has just returned: ret is its outcome for the present record.
Validated == pc = "validated"

\* The record keeps the invariants other than the one on value.
ValidButForValue ==
    /\ trial.datetime_start # None
    /\ (trial.datetime_complete # None) <=> (trial.state \in {"COMPLETE", "PRUNED", "FAIL"})
    /\ DOMAIN trial.params = DOMAIN trial.distributions
    /\ \A n \in DOMAIN trial.params :
           /\ trial.distributions[n].low <= trial.params[n]
           /\ trial.params[n] <= trial.distributions[n].high

\* C11 as stated: once a trial record is in a terminal state (COMPLETE, PRUNED
\* or FAIL) every further mutation is rejected: neither its state nor its
\* value, datetime_complete, params, distributions, attributes or
\* intermediate_values change any more.
C11_TerminalFrozen ==
    [][trial.state \in {"COMPLETE", "PRUNED", "FAIL"} => trial' = trial]_vars

\* C11 amended: a terminal record is not frozen (its fields stay assignable);
\* what is rejected is the record that breaks a validation invariant: when the
\* state of a valid terminal record is set back to RUNNING, the record fails
\* _validate with ValueError.
C11_ReopenedRejected ==
    [][(/\ trial.state \in {"COMPLETE", "PRUNED", "FAIL"}
        /\ _validate(trial).raised = "None"
        /\ trial' = [trial EXCEPT !.state = "RUNNING"])
           => _validate(trial').raised = "ValueError"]_vars

\* The valid COMPLETE record with its state set back to RUNNING, rejected.
C11_Witness ==
    /\ Validated
    /\ trial = [ValidTrial EXCEPT !.state = "RUNNING"]
    /\ ret.raised = "ValueError"

\* C12 as stated: _validate accepts a record only if value is present exactly
\* when state = COMPLETE.
C12_ValueIffComplete ==
    (Validated /\ ret.raised = "None") =>
        ((trial.value # None) <=> (trial.state = "COMPLETE"))

\* C12 amended: a COMPLETE record with value unset is rejected with
\* ValueError; a RUNNING, PRUNED or FAIL record with value set is not rejected
\* on that account: it is accepted whenever the other invariants hold.
C12_ValueIfComplete ==
    Validated =>
        /\ (trial.state = "COMPLETE" /\ trial.value = None) => ret.raised = "ValueError"
        /\ (trial.state # "COMPLETE" /\ trial.value # None /\ ValidButForValue)
               => ret.raised = "None"

\* A PRUNED record with a value, accepted.
C12_Witness ==
    /\ Validated
    /\ trial.state = "PRUNED" /\ trial.value # None
    /\ ret.raised = "None"

\* C13: _validate accepts a record only if datetime_complete is present
\* exactly when the state is terminal: a COMPLETE, PRUNED or FAIL record with
\* datetime_complete unset and a RUNNING record with datetime_complete set are
\* rejected with ValueError; validation leaves the record unchanged.
C13_DatetimeCompleteIffTerminal ==
    [][pc' = "validated" =>
        /\ trial' = trial
        /\ (trial.state \in {"COMPLETE", "PRUNED", "FAIL"} /\ trial.datetime_complete = None)
               => ret'.raised = "ValueError"
        /\ (trial.state = "RUNNING" /\ trial.datetime_complete # None)
               => ret'.raised = "ValueError"
        /\ ret'.raised = "None" =>
               ((trial.datetime_complete # None)
                    <=> (trial.state \in {"COMPLETE", "PRUNED", "FAIL"}))]_vars

\* A FAIL record with datetime_start set and datetime_complete unset, rejected.
C13_Witness ==
    /\ Validated
    /\ trial.state = "FAIL" /\ trial.datetime_start # None
    /\ trial.datetime_complete = None
    /\ ret.raised = "ValueError"

\* ------------------------------------------------ PercentilePruner.__init__

\* The range test on percentile with both ends excluded.
init_error_exclusive(percentile, n_startup_trials, n_warmup_steps, interval_steps) ==
    \/ ~(0 < percentile /\ percentile < 100)
    \/ n_startup_trials < 0
    \/ n_warmup_steps < 0
    \/ interval_steps < 1

\* __init__: the four tests that raise ValueError.
init_error(percentile, n_startup_trials, n_warmup_steps, interval_steps) ==
    \/ ~(0 <= percentile /\ percentile <= 100)
    \/ n_startup_trials < 0
    \/ n_warmup_steps < 0
    \/ interval_steps < 1

\* The attributes __init__ assigns.
PercentilePruner(percentile, n_startup_trials, n_warmup_steps, interval_steps) ==
    [percentile |-> percentile, n_startup_trials |-> n_startup_trials,
     n_warmup_steps |-> n_warmup_steps, interval_steps |-> interval_steps]

\* No pruner: __init__ has assigned nothing.
NoPruner == PercentilePruner(None, None, None, None)

\* A call of __init__: its arguments and whether it raised.
Constructed(raised, args) == [raised |-> raised, value |-> None, args |-> args]

\* PercentilePruner(percentile, n_startup_trials, n_warmup_steps, interval_steps)
Construct(percentile, n_startup_trials, n_warmup_steps, interval_steps) ==
    LET args == PercentilePruner(percentile, n_startup_trials, n_warmup_steps, interval_steps)
    IN  /\ pc = "new"
        /\ IF init_error(percentile, n_startup_trials, n_warmup_steps, interval_steps)
           THEN /\ ret' = Constructed("ValueError", args)
                /\ pruner' = pruner
                /\ pc' = "failed"
           ELSE /\ ret' = Constructed("None", args)
                /\ pruner' = args
                /\ pc' = "idle"
        /\ UNCHANGED <<study, trial, evaluated, increasing>>

\* The construction specification: a pruner is constructed from arguments on
\* both sides of every limit, then used.
ConstructPercentiles == {-25, 0, 50, 100, 125}
ConstructStartupTrials == {-1, 0, 1}
ConstructWarmupSteps == {-1, 0, 1}
ConstructIntervalSteps == {0, 1, 2}
ConstructSteps == 0..2
ConstructValues == {NaN, Float(10)}

InitConstruct ==
    /\ pruner = NoPruner
    /\ study \in [direction : {"MINIMIZE", "MAXIMIZE"},
                  trials : {<<FrozenTrial("COMPLETE", [s \in ConstructSteps |-> Float(5)])>>}]
    /\ trial = FrozenTrial("RUNNING", EmptyDict)
    /\ pc = "new"
    /\ ret = NoCall
    /\ evaluated = [s \in {} |-> 0]
    /\ increasing = TRUE

NextConstruct ==
    \/ \E percentile \in ConstructPercentiles, n_startup_trials \in ConstructStartupTrials,
          n_warmup_steps \in ConstructWarmupSteps, interval_steps \in ConstructIntervalSteps :
           Construct(percentile, n_startup_trials, n_warmup_steps, interval_steps)
    \/ \E step \in ConstructSteps, value \in ConstructValues : Report(step, value)
    \/ Prune

SpecConstruct == InitConstruct /\ [][NextConstruct]_vars

\* A configuration the documentation allows.
ValidConfiguration(c) ==
    /\ c.percentile >= 0 /\ c.percentile <= 100
    /\ c.n_startup_trials >= 0
    /\ c.n_warmup_steps >= 0
    /\ c.interval_steps >= 1

\* C14: constructing a PercentilePruner fails at once with ValueError if and
\* only if percentile is outside [0, 100], n_startup_trials or n_warmup_steps
\* is negative, or interval_steps is below 1; otherwise it succeeds and stores
\* the four values unchanged, so that every later prune call runs with a valid
\* configuration and raises nothing.
C14_EagerValidation ==
    /\ pc = "failed" =>
           /\ ret.raised = "ValueError"
           /\ ~ValidConfiguration(ret.args)
           /\ pruner = NoPruner
    /\ pc = "idle" =>
           /\ ret.raised = "None"
           /\ ValidConfiguration(ret.args)
           /\ pruner = ret.args
    /\ pc \in {"idle", "reported", "called"} => ValidConfiguration(pruner)
    /\ pc = "called" => ret.raised = "None"

\* Construction with interval_steps = 0 and everything else at a limit, failed.
C14_Witness ==
    /\ pc = "failed"
    /\ ret.raised = "ValueError"
    /\ ret.args = PercentilePruner(100, 0, 0, 0)

StateSteps == {1}
StateValues == {Float(10), Float(20)}
StateReports == {NaN, Float(5), Float(15)}

InitStates ==
    /\ pruner \in [percentile : {50}, n_startup_trials : {0, 2},
                   n_warmup_steps : {0}, interval_steps : {1}]
    /\ study \in [direction : {"MINIMIZE", "MAXIMIZE"}, trials : {<<>>}]
    /\ trial = FrozenTrial("RUNNING", EmptyDict)
    /\ pc = "idle"
    /\ ret = NoCall
    /\ evaluated = [s \in {} |-> 0]
    /\ increasing = TRUE

NextStates ==
    \/ \E step \in StateSteps, value \in StateReports : Report(step, value)
    \/ \E state \in TrialState, iv \in OneReport(StateSteps, StateValues) :
           AddTrial(FrozenTrial(state, iv))
    \/ Prune

SpecStates == InitStates /\ [][NextStates]_vars

\* The snapshot with every trial that is not COMPLETE taken out.
CompleteOnly ==
    [direction |-> snapshot.direction,
     trials |-> SelectSeq(snapshot.trials, LAMBDA t : t.state \notin {"RUNNING", "PRUNED", "FAIL"})]

\* C16: the result of prune depends on the snapshot only through its COMPLETE
\* trials: with the RUNNING, PRUNED and FAIL trials taken out of the snapshot
\* the result is the same, so two snapshots with the same COMPLETE trials and
\* direction give the same result; a snapshot without COMPLETE trials is in
\* startup however many other trials it holds.
C16_CompleteTrialsOnly ==
    Called =>
        /\ ret = prune(pruner, CompleteOnly, trial)
        /\ CompleteTrials = {} => (ret.at = "startup" /\ ~ret.ret)

\* A call that reached the comparison, decided to prune, with a PRUNED trial
\* holding a value at the step in the snapshot.
C16_Witness ==
    /\ Called
    /\ ret.at = "compare" /\ ret.ret
    /\ \E i \in DOMAIN study.trials :
           /\ study.trials[i].state = "PRUNED"
           /\ ret.step \in DOMAIN study.trials[i].intermediate_values

\* C17: in every call of _is_first_in_interval_step reached from prune with a
\* valid pruner (n_warmup_steps >= 0, interval_steps >= 1) and a latest step
\* past the warmup, the assertion nearest_lower_pruning_step >= 0 holds, and
\* the boundary lies in the window of the step: n_warmup_steps < boundary <=
\* step and step - boundary < interval_steps.
C17_BoundaryInWindow ==
    (Called /\ StartupPassed /\ WarmupPassed) =>
        LET boundary == nearest_lower_pruning_step(Latest, pruner.n_warmup_steps,
                                                   pruner.interval_steps)
        IN  /\ ret.raised = "None"
            /\ ret.at \in {"interval"} \cup PastInterval
            /\ boundary >= 0
            /\ pruner.n_warmup_steps < boundary
            /\ boundary <= Latest
            /\ Latest - boundary < pruner.interval_steps

\* Warmup 3, interval 3, latest step 5 with the boundary 4 itself reported:
\* the call stops at the interval check.
C17_Witness ==
    /\ Called /\ StartupPassed /\ WarmupPassed
    /\ pruner.n_warmup_steps = 3 /\ pruner.interval_steps = 3
    /\ Latest = 5 /\ 4 \in ReportedSteps
    /\ ret.at = "interval"

====
